---- MODULE Spec2Model ----
(***************************************************************************)
(* The ReAct control loop of app/services/agent_service.py together with   *)
(* the tool adapters of app/services/tool_service.py.                      *)
(*                                                                         *)
(* Python values are modelled as tagged records ([t |-> "none"] is None,   *)
(* [t |-> "int", n |-> n] an int, ...) and Python dicts as functions whose  *)
(* DOMAIN is the set of keys that are present, so "key in dict" is         *)
(* "key \in DOMAIN dict".  What the language model, the pharmacy API and   *)
(* their transports answer is an input, drawn with \E in the actions.      *)
(***************************************************************************)
EXTENDS Integers, Sequences, FiniteSets, TLC

VARIABLES
    conversation_history,   \* self.conversation_history
    current_pharmacy,       \* self.current_pharmacy
    collected_info,         \* self.collected_info
    topics_of_interest,     \* self.topics_of_interest
    email_sent,             \* self.email_sent
    pc,                     \* position: "idle", or "think" (in process_message, at a
                            \* call of _generate_thought); of a direct call of
                            \* _execute_tool: "unit", "executed", "again", "raised"
    thought,                \* process_message's local `thought`
    observation,            \* process_message's local `observation`
    iteration_count,        \* process_message's local `iteration_count`
    decision,               \* what the gateway answered to the last Decision request
    returned,               \* what the last call of a handler returned
    last_step,              \* what the last step did about a tool
    invocations             \* how often each tool's function has been entered

vars == <<conversation_history, current_pharmacy, collected_info, topics_of_interest,
          email_sent, pc, thought, observation, iteration_count, decision, returned,
          last_step, invocations>>

agent == <<current_pharmacy, collected_info, topics_of_interest, email_sent>>

----------------------------------------------------------------------------
(* Bounds of the model *)

MaxTurns == 4           \* entries of the transcript of a session (Spec)
MaxLongTurns == 5       \* the same, of a session about the email tools (SpecEmail)
MaxItems == 2           \* prescription items of a record handed to a tool directly

----------------------------------------------------------------------------
(* Python values *)

None == [t |-> "none"]

PyInt(n) == [t |-> "int", n |-> n]

\* a truthy value that is no container (a number, true): "x in value" raises TypeError
Scalar == [t |-> "scalar"]

PyDict(d) == [t |-> "dict", d |-> d]

PyList(items) == [t |-> "list", items |-> items]

PyStr(s) == [t |-> "str", s |-> s]

EmptyDict == PyDict(<<>>)

\* `value or {}` (agent_service.py:212, :340)
OrEmptyDict(value) == IF value = None THEN EmptyDict ELSE value

\* the payload taking the place of the mapping
DictReplace(a, b) == b

\* dict.update / shallow merge: keys of b overwrite, the other keys of a are kept
DictUpdate(a, b) ==
    [k \in (DOMAIN a) \cup (DOMAIN b) |-> IF k \in DOMAIN b THEN b[k] ELSE a[k]]

\* the mapping cleared before the key is set
DictOnly(a, key, value) == [k \in {key} |-> value]

\* dict[key] = value
DictSet(a, key, value) ==
    [k \in (DOMAIN a) \cup {key} |-> IF k = key THEN value ELSE a[k]]

NoInfo == [k \in {} |-> "x"]

----------------------------------------------------------------------------
(* The tool registry (ReActAgent.__init__) *)

ToolNames ==
    <<"find_pharmacy", "classify_intent", "generate_email", "send_email",
      "calculate_rx_volume">>

RegisteredTools == {ToolNames[i] : i \in DOMAIN ToolNames}

required_context(name) ==
    CASE name = "find_pharmacy" -> <<"phone_number">>
      [] name = "classify_intent" -> <<"user_message", "conversation_context">>
      [] name = "generate_email" -> <<"pharmacy_info", "user_query", "topics_of_interest">>
      [] name = "send_email" -> <<"email_data">>
      [] name = "calculate_rx_volume" -> <<"pharmacy">>

\* the parameters of tool.function: the keywords `tool.function(**tool_args)` accepts
Parameters(name) == {required_context(name)[i] : i \in DOMAIN required_context(name)}

\* next((t for t in self.tools if t.name == thought.tool_name), None)
LookupTool(name) == IF name \in RegisteredTools THEN name ELSE "<no tool>"

NoTool == "<None>"

Sentinel == "continue_conversation"

MaxIterations == 5

----------------------------------------------------------------------------
(* Customer records of the pharmacy API: dicts with a name and a phone, and  *)
(* optionally a list of prescription items, each optionally with a count.    *)

HealthFirst ==
    [name |-> "HealthFirst Pharmacy", phone |-> <<"5", "-", "1">>,
     prescriptions |-> <<[drug |-> "Lisinopril", count |-> 42],
                         [drug |-> "Atorvastatin", count |-> 38]>>]

CornerDrug == [name |-> "Corner Drug", phone |-> <<"5", "2">>]

Pharmacies == {HealthFirst, CornerDrug}

\* what GET base_url answers when it answers
Directory == <<HealthFirst, CornerDrug>>

\* caller phone numbers: two spellings of HealthFirst's, and an unknown one
Phones == {<<"5", "1">>, <<"5", "-", "1">>, <<"9">>}

Digits == {"0", "1", "2", "3", "4", "5", "6", "7", "8", "9"}

IsDigit(c) == c \in Digits

\* PharmacyAPITool._normalize_phone: ''.join(filter(str.isdigit, phone))
normalize_phone(phone) == SelectSeq(phone, IsDigit)

\* PharmacyAPITool.get_all_pharmacies: a RequestException gives []
get_all_pharmacies(api) == IF api.all = "request_error" THEN <<>> ELSE Directory

\* the `for pharmacy in all_pharmacies: if normalized phones agree: return pharmacy`
\* scan of get_pharmacy_by_phone, `return None` after it
ScanDirectory(all, phone_number) ==
    LET hits == {i \in DOMAIN all :
                    normalize_phone(all[i].phone) = normalize_phone(phone_number)}
    IN IF hits = {} THEN None
       ELSE all[CHOOSE i \in hits : \A j \in hits : i <= j]

\* PharmacyAPITool.get_pharmacy_by_phone.  api.resp is what GET ?phone= answers:
\* a transport error, a body that is no JSON, the string "Not found", or a list.
get_pharmacy_by_phone(phone_number, api) ==
    CASE api.resp.k = "request_error" -> None
      [] api.resp.k = "bad_json" -> None
      [] api.resp.k = "not_found" ->
            ScanDirectory(get_all_pharmacies(api), phone_number)
      [] api.resp.k = "list" ->
            IF api.resp.items # <<>> THEN api.resp.items[1]
            ELSE ScanDirectory(get_all_pharmacies(api), phone_number)

\* (api.all is read only when the directory is scanned)
ApiAnswers ==
    {[resp |-> r, all |-> "ok"] :
        r \in {[k |-> "request_error"], [k |-> "bad_json"],
               [k |-> "list", items |-> <<HealthFirst>>],
               [k |-> "list", items |-> <<CornerDrug>>]}}
    \cup {[resp |-> r, all |-> a] :
            r \in {[k |-> "not_found"], [k |-> "list", items |-> <<>>]},
            a \in {"request_error", "ok"}}

----------------------------------------------------------------------------
(* ReActAgent.calculate_total_rx_volume *)

\* a prescription item without a count taken for one prescription
CountOfOrOne(rx) == IF "count" \in DOMAIN rx THEN rx.count ELSE 1

\* rx.get("count", 0)
CountOf(rx) == IF "count" \in DOMAIN rx THEN rx.count ELSE 0

RECURSIVE SumCounts(_)
SumCounts(items) ==
    IF items = <<>> THEN 0 ELSE CountOf(Head(items)) + SumCounts(Tail(items))

calculate_total_rx_volume(pharmacy) ==
    IF pharmacy = None \/ "prescriptions" \notin DOMAIN pharmacy THEN 0
    ELSE SumCounts(pharmacy.prescriptions)

----------------------------------------------------------------------------
(* IntentClassifierTool.classify_intent: the model's JSON answer as parsed,  *)
(* or the default when the call or the parse fails.                          *)

DefaultIntent == PyDict([intent |-> "other", confidence |-> "0.0"])

classify_intent(user_message, conversation_context, llm) ==
    IF llm.k = "json" THEN llm.value ELSE DefaultIntent

ClassifierAnswers ==
    {[k |-> "error"],
     [k |-> "json", value |-> PyDict([intent |-> "inquiry_services", confidence |-> "0.95"])],
     [k |-> "json", value |-> PyDict([intent |-> "request_email", confidence |-> "0.95"])],
     [k |-> "json", value |-> PyDict([intent |-> "provide_info", confidence |-> "0.95"])],
     [k |-> "json", value |-> PyDict([intent |-> "provide_info", confidence |-> "0.95",
                                      info |-> PyDict([name |-> "City Pharmacy"])])],
     [k |-> "json", value |-> PyDict([intent |-> "provide_info", confidence |-> "0.95",
                                      info |-> PyDict([name |-> "Corner Drug",
                                                       location |-> "Chicago"])])],
     [k |-> "json", value |-> PyDict([intent |-> "provide_info", confidence |-> "0.95",
                                      info |-> [t |-> "str"]])],
     [k |-> "json", value |-> [t |-> "list"]]}

----------------------------------------------------------------------------
(* EmailTool *)

DefaultRecipient == "customer@example.com"

EmailSubject == "Information About Our Pharmacy Services"

\* EmailTool.generate_email.  Outcome: [raised |-> FALSE, value |-> the email] or
\* [raised |-> TRUE, value |-> the exception].  With pharmacy_info None the prompt's
\* pharmacy_info.get raises inside the try, and the handler's own
\* pharmacy_info.get("email", ...) raises again, out of the function.
generate_email(pharmacy_info, user_query, topics, llm) ==
    LET topics_used == IF topics = None \/ topics.items = <<>>
                       THEN <<"general">> ELSE topics.items
        greeting == IF pharmacy_info # None /\ "name" \in DOMAIN pharmacy_info
                    THEN <<"Dear", pharmacy_info.name, "team,">>
                    ELSE <<"Dear Pharmacy Team,">>
    IN IF pharmacy_info = None
       THEN [raised |-> TRUE, value |-> "AttributeError"]
       ELSE [raised |-> FALSE,
             value |-> [to |-> IF "email" \in DOMAIN pharmacy_info
                                THEN pharmacy_info.email ELSE DefaultRecipient,
                        subject |-> EmailSubject,
                        body |-> IF llm.k = "text" THEN <<"generated">>
                                 ELSE <<"template">> \o greeting,
                        topics |-> topics_used]]

\* EmailTool.send_email: reads email_data['to'], ['subject'], ['body'] and reports
\* success; a mapping without them raises KeyError.
send_email(email_data) ==
    IF {"to", "subject", "body"} \subseteq DOMAIN email_data
    THEN [raised |-> FALSE,
          value |-> [success |-> TRUE,
                     message |-> <<"Email sent successfully to", email_data.to>>,
                     timestamp |-> "now"]]
    ELSE [raised |-> TRUE, value |-> "KeyError"]

\* what chat.completions.create answers to a free-text request
TextAnswers == {[k |-> "error"], [k |-> "text"]}

----------------------------------------------------------------------------
(* Thought, Observation *)

Thought(reasoning, next_action, tool_name, tool_args) ==
    [reasoning |-> reasoning, next_action |-> next_action,
     tool_name |-> tool_name, tool_args |-> tool_args]

Observation(result, success, error) ==
    [result |-> result, success |-> success, error |-> error]

\* an unregistered tool reported like a missing argument
ToolNotFoundAsMissing(name) == [k |-> "missing", keys |-> <<name>>]

\* the error texts of a failed Observation
ToolNotFound(name) == [k |-> "not_found", tool |-> name]

MissingContext(keys) == [k |-> "missing", keys |-> keys]

ExceptionText(e) == [k |-> "exception", desc |-> e]

\* a fallback that keeps the loop going
FallbackThoughtUseTool(reasoning) == Thought(reasoning, "use_tool", NoTool, EmptyDict)

FallbackThought(reasoning) == Thought(reasoning, Sentinel, NoTool, EmptyDict)

\* thought_data.get(key, default)
Get(d, key, default) == IF key \in DOMAIN d THEN d[key] ELSE default

\* no override: the Decision is used as given
KeepDecision(data) == data

\* the override of lines 160-164
OverrideSendEmail(data) ==
    [k \in (DOMAIN data) \cup {"next_action", "tool_name", "tool_args"} |->
        CASE k = "next_action" -> Sentinel
          [] k = "tool_name" -> NoTool
          [] k = "tool_args" -> EmptyDict
          [] OTHER -> data[k]]

\* ReActAgent._generate_thought, given what the gateway answered (raw) and
\* self.email_sent.  raw.k is "error" (the call raised), "unparsable" (content is no
\* JSON) or "json" (raw.value is the parsed content: a dict, or a Scalar).
generate_thought(raw, sent) ==
    CASE raw.k = "error" -> FallbackThought("Error in thought generation")
      [] raw.k = "unparsable" -> FallbackThought("Error parsing JSON response")
      [] raw.k = "json" /\ raw.value.t # "dict" ->
            FallbackThought("Error in thought generation")
      [] raw.k = "json" /\ raw.value.t = "dict" ->
            IF "reasoning" \notin DOMAIN raw.value.d \/ "next_action" \notin DOMAIN raw.value.d
            THEN FallbackThought("Invalid thought data structure")
            ELSE LET given == raw.value.d
                     data == IF sent /\ Get(given, "tool_name", NoTool) = "send_email"
                             THEN OverrideSendEmail(given) ELSE given
                 IN Thought(Get(data, "reasoning", ""),
                            Get(data, "next_action", Sentinel),
                            Get(data, "tool_name", NoTool),
                            Get(data, "tool_args", EmptyDict))

\* the check stopping at the first absent key
FirstMissing(name, args) ==
    LET all == SelectSeq(required_context(name), LAMBDA arg : arg \notin DOMAIN args.d)
    IN IF all = <<>> THEN <<>> ELSE <<Head(all)>>

\* the list comprehension of lines 214-217 and 264-267
missing_context(name, args) ==
    SelectSeq(required_context(name), LAMBDA arg : arg \notin DOMAIN args.d)

\* ReActAgent._validate_tool_inputs: [raised, is_valid, error]; `arg not in args`
\* raises TypeError when args is no container
validate_tool_inputs(name, args) ==
    IF args.t # "dict"
    THEN [raised |-> TRUE, is_valid |-> FALSE, error |-> "TypeError"]
    ELSE IF missing_context(name, args) # <<>>
         THEN [raised |-> FALSE, is_valid |-> FALSE,
               error |-> MissingContext(missing_context(name, args))]
         ELSE [raised |-> FALSE, is_valid |-> TRUE, error |-> None]

\* what the external collaborator of a tool may answer to one call
ExtAnswers(name) ==
    CASE name = "find_pharmacy" -> ApiAnswers
      [] name = "classify_intent" -> ClassifierAnswers
      [] name = "generate_email" -> TextAnswers
      [] OTHER -> {[k |-> "none"]}

\* tool.function(**tool_args), entered: [raised, value]
ToolFunction(name, d, ext) ==
    CASE name = "find_pharmacy" ->
            [raised |-> FALSE, value |-> get_pharmacy_by_phone(d.phone_number, ext)]
      [] name = "classify_intent" ->
            [raised |-> FALSE,
             value |-> classify_intent(d.user_message, d.conversation_context, ext)]
      [] name = "generate_email" ->
            generate_email(d.pharmacy_info, d.user_query, d.topics_of_interest, ext)
      [] name = "send_email" -> send_email(d.email_data)
      [] name = "calculate_rx_volume" ->
            [raised |-> FALSE, value |-> PyInt(calculate_total_rx_volume(d.pharmacy))]

\* result.get("success", False) of line 228
ReportsSuccess(result) == "success" \in DOMAIN result /\ result.success

\* the flag assigned from the outcome of whatever call was made
EmailSentAssigned(name, call, sent) ==
    name = "send_email" /\ ~call.raised /\ ReportsSuccess(call.value)

\* the flag set by any tool whose call returned
EmailSentAfterAnyTool(name, call, sent) ==
    IF ~call.raised THEN TRUE ELSE sent

\* the flag set by the volume aggregation as well
EmailSentAfterVolume(name, call, sent) ==
    IF name \in {"send_email", "calculate_rx_volume"} /\ ~call.raised THEN TRUE ELSE sent

\* self.email_sent after the try block of _execute_tool (lines 228-229)
EmailSentAfter(name, call, sent) ==
    IF name = "send_email" /\ ~call.raised /\ ReportsSuccess(call.value) THEN TRUE ELSE sent

\* an exception of the call swallowed: the Observation reports success
ToolObservationSwallowed(call) ==
    Observation(IF call.raised THEN None ELSE call.value, TRUE, None)

\* the Observation made of what tool.function did (lines 232-238)
ToolObservation(call) ==
    IF call.raised THEN Observation(None, FALSE, ExceptionText(call.value))
    ELSE Observation(call.value, TRUE, None)

NoException == ""

\* ReActAgent._execute_tool: [raised, obs, email_sent, invoked, exception].  raised: the
\* TypeError of `arg not in tool_args` (line 216, outside the try); invoked: the
\* tool's function was entered (a keyword it does not accept raises TypeError in
\* the call itself, inside the try, before the function runs); exception: what
\* was raised inside the try, if anything.
execute_tool(th, ext, sent) ==
    LET name == th.tool_name
        args == OrEmptyDict(th.tool_args)
        quiet(obs) == [raised |-> FALSE, obs |-> obs, email_sent |-> sent,
                       invoked |-> FALSE, exception |-> NoException]
    IN IF name = NoTool THEN quiet(Observation(None, TRUE, None))
       ELSE IF LookupTool(name) # name
       THEN quiet(Observation(None, FALSE, ToolNotFound(name)))
       ELSE IF args.t # "dict"
       THEN [raised |-> TRUE, obs |-> None, email_sent |-> sent, invoked |-> FALSE,
             exception |-> NoException]
       ELSE IF missing_context(name, args) # <<>>
       THEN quiet(Observation(None, FALSE, MissingContext(missing_context(name, args))))
       ELSE IF DOMAIN args.d # Parameters(name)
       THEN [raised |-> FALSE,
             obs |-> ToolObservation([raised |-> TRUE, value |-> "TypeError"]),
             email_sent |-> sent, invoked |-> FALSE, exception |-> "TypeError"]
       ELSE LET call == ToolFunction(name, args.d, ext)
            IN [raised |-> FALSE,
                obs |-> ToolObservation(call),
                email_sent |-> EmailSentAfter(name, call, sent),
                invoked |-> TRUE,
                exception |-> IF call.raised THEN call.value ELSE NoException]

\* the transcript entries
Turn(role, content) == [role |-> role, content |-> content]

\* f"Thought: {reasoning}\nAction: {next_action}\nResult: {result or error}"
ThoughtText(th, obs) ==
    [k |-> "thought", reasoning |-> th.reasoning, action |-> th.next_action,
     result |-> IF obs.success THEN obs.result ELSE obs.error]

\* the transcript cut to its newest entries before the new one is added
AppendTrimmed(history, turn) ==
    IF Len(history) >= 2 THEN Append(Tail(history), turn) ELSE Append(history, turn)

\* self.conversation_history.append(turn)
AppendTurn(history, turn) == Append(history, turn)

\* the record merged into the previous one
MergeRecord(pharmacy, result) ==
    IF pharmacy = None \/ result = None THEN result ELSE DictUpdate(pharmacy, result)

\* self.current_pharmacy = observation.result
ReplaceRecord(pharmacy, result) == result

\* the rules applied whatever the Observation reports
SucceededAlways(obs) == TRUE

\* `and observation.success` of the rules of _update_state
Succeeded(obs) == obs.success

\* an entry made of successful Observations only
RecordedOnSuccess(th, obs) == th.tool_name # NoTool /\ obs.success

\* `if thought.tool_name:` of _update_state: the iteration gets a transcript entry
Recorded(th, obs) == th.tool_name # NoTool

\* ReActAgent._update_state: [raised, history, current_pharmacy, collected_info,
\* topics_of_interest].  A classification result that is no dict raises at
\* intent_data.get, an info payload that is no mapping raises in dict.update; the
\* transcript entry has been appended by then.
update_state(th, obs, history, pharmacy, info, topics) ==
    LET name == th.tool_name
        history1 == IF Recorded(th, obs)
                    THEN AppendTurn(history, Turn("assistant", ThoughtText(th, obs)))
                    ELSE history
        result(raised, p, i, t) ==
            [raised |-> raised, history |-> history1, current_pharmacy |-> p,
             collected_info |-> i, topics_of_interest |-> t]
        topics1 == IF name = "generate_email" /\ Succeeded(obs)
                      /\ obs.result # None /\ "topics" \in DOMAIN obs.result
                   THEN topics \o obs.result.topics ELSE topics
    IN IF name = "find_pharmacy" /\ Succeeded(obs)
       THEN result(FALSE, ReplaceRecord(pharmacy, obs.result), info, topics1)
       ELSE IF name = "classify_intent" /\ Succeeded(obs)
       THEN IF obs.result.t # "dict" THEN result(TRUE, pharmacy, info, topics)
            ELSE LET intent == Get(obs.result.d, "intent", "")
                     payload == Get(obs.result.d, "info", EmptyDict)
                 IN IF intent = "provide_info"
                    THEN IF payload.t # "dict" THEN result(TRUE, pharmacy, info, topics)
                         ELSE result(FALSE, pharmacy, DictUpdate(info, payload.d), topics1)
                    ELSE IF intent = "request_email"
                    THEN result(FALSE, pharmacy, DictSet(info, "requested_email", "True"),
                                topics1)
                    ELSE result(FALSE, pharmacy, info, topics1)
       ELSE result(FALSE, pharmacy, info, topics1)

ApologyRephrase ==
    PyStr("I apologize, but I'm having trouble generating a response. Could you please rephrase your question?")

ApologyError ==
    PyStr("I apologize, but I encountered an error processing your message. Please try again.")

\* what chat.completions.create answers to the request for the final reply: it
\* raises, or message.content is a text or the empty text
ReplyAnswers ==
    {[k |-> "error"], [k |-> "text", content |-> PyStr("Here is how our services help.")],
     [k |-> "text", content |-> PyStr("")]}

\* ReActAgent._generate_natural_response
generate_natural_response(th, obs, llm) ==
    IF llm.k = "text" THEN llm.content ELSE ApologyRephrase

----------------------------------------------------------------------------
(* What the gateway may answer to a Decision request *)

\* a drafted email, as generate_email returns it
Draft == generate_email(HealthFirst, "q", None, [k |-> "text"]).value

ToolCall(name, args) == [tool_name |-> name, tool_args |-> args]

ToolCalls ==
    {ToolCall("lookup_customer", EmptyDict),
     ToolCall("find_pharmacy", PyDict([phone_number |-> <<"5", "1">>])),
     ToolCall("find_pharmacy", Scalar),
     ToolCall("find_pharmacy", EmptyDict),
     ToolCall("classify_intent",
              PyDict([user_message |-> "msg", conversation_context |-> "ctx"])),
     ToolCall("classify_intent", PyDict([user_message |-> "msg"])),
     ToolCall("generate_email",
              PyDict([pharmacy_info |-> HealthFirst, user_query |-> "q",
                      topics_of_interest |-> PyList(<<"automation">>)])),
     ToolCall("generate_email",
              PyDict([pharmacy_info |-> None, user_query |-> "q",
                      topics_of_interest |-> None])),
     ToolCall("send_email", PyDict([email_data |-> Draft])),
     ToolCall("send_email", PyDict([email_data |-> [to |-> "x"]])),
     ToolCall("calculate_rx_volume", PyDict([pharmacy |-> HealthFirst]))}

NextActions == {Sentinel, "use_tool"}

Reasoning == "reasoning"

Decision(next_action, call) ==
    [k |-> "json",
     value |-> PyDict([reasoning |-> Reasoning, next_action |-> next_action,
                       tool_name |-> call.tool_name, tool_args |-> call.tool_args])]

\* the well-formed answers that name a tool: any of the calls with a next action
\* to take, and one of them with the sentinel
ToolDecisions ==
    {Decision("use_tool", c) : c \in ToolCalls}
    \cup {Decision(Sentinel, ToolCall("send_email", PyDict([email_data |-> Draft])))}

\* a well-formed answer that names no tool
PlainDecisions ==
    {[k |-> "json", value |-> PyDict([reasoning |-> Reasoning, next_action |-> a])] :
        a \in NextActions}

\* the call raises; the content is no JSON; the JSON lacks next_action; the JSON
\* lacks reasoning (and names a tool)
MalformedDecisions ==
    {[k |-> "error"], [k |-> "unparsable"],
     [k |-> "json", value |-> PyDict([reasoning |-> Reasoning])],
     [k |-> "json", value |-> PyDict([next_action |-> "use_tool",
                                      tool_name |-> "send_email",
                                      tool_args |-> PyDict([email_data |-> Draft])])]}

\* the gateway of a session: the answers it gives when it may name a tool, and
\* the bound on the transcript
AnyGateway == [tools |-> ToolDecisions, turns |-> MaxTurns]

\* a gateway that names no tools but send_email (with a draft, with a mapping
\* that is no draft, with arguments that are no mapping) and an unknown one
EmailGateway ==
    [tools |-> {Decision("use_tool", c) :
                    c \in {ToolCall("send_email", PyDict([email_data |-> Draft])),
                           ToolCall("send_email", PyDict([email_data |-> [to |-> "x"]])),
                           ToolCall("send_email", Scalar),
                           ToolCall("lookup_customer", EmptyDict)}}
               \cup {Decision(Sentinel,
                              ToolCall("send_email", PyDict([email_data |-> Draft])))},
     turns |-> MaxLongTurns]

\* the answers offered to a Decision request: once the transcript has room for
\* the final reply only, the answers on which no tool step is made
GatewayAnswers(gateway, history, sent) ==
    {raw \in MalformedDecisions \cup PlainDecisions \cup gateway.tools :
        \/ Len(history) + 2 <= gateway.turns
        \/ generate_thought(raw, sent).tool_name = NoTool
        \/ generate_thought(raw, sent).next_action = Sentinel}

Messages == {PyStr("What services do you offer?")}

----------------------------------------------------------------------------
(* The state machine *)

NoReturn == [op |-> "none", k |-> "none", value |-> None]

NoAnswer == [k |-> "none"]

\* the record of a step: which handler, whether it made an Observation and which,
\* whether the tool's function was entered, what was raised inside the try of
\* _execute_tool, and what the pharmacy API answered to handle_incoming_call
Step(op, produced, obs, invoked, exception, ext) ==
    [op |-> op, produced |-> produced, obs |-> obs, invoked |-> invoked,
     exception |-> exception, ext |-> ext]

NoStep == Step("none", FALSE, None, FALSE, NoException, NoAnswer)

\* a failed call entered a second time
CountedRetried(name, exec) ==
    IF exec.invoked
    THEN [invocations EXCEPT ![name] = @ + (IF exec.obs.success THEN 1 ELSE 2)]
    ELSE invocations

\* the count of the entries into the tools' functions after a step
Counted(name, exec) ==
    IF exec.invoked THEN [invocations EXCEPT ![name] = @ + 1] ELSE invocations

Init ==
    /\ conversation_history = <<>>
    /\ current_pharmacy = None
    /\ collected_info = NoInfo
    /\ topics_of_interest = <<>>
    /\ email_sent = FALSE
    /\ pc = "idle"
    /\ thought = None
    /\ observation = None
    /\ iteration_count = 0
    /\ decision = NoAnswer
    /\ returned = NoReturn
    /\ last_step = NoStep
    /\ invocations = [n \in RegisteredTools |-> 0]

\* a greeting that states the number of prescription items, not their counts
GreetingItemCount(obs) ==
    IF obs.success /\ obs.result # None
    THEN [k |-> "greeting", name |-> obs.result.name,
          rx_volume |-> IF "prescriptions" \in DOMAIN obs.result
                        THEN Len(obs.result.prescriptions) ELSE 0]
    ELSE [k |-> "ask_name"]

\* the greeting of handle_incoming_call (lines 376-382)
Greeting(obs) ==
    IF obs.success /\ obs.result # None
    THEN [k |-> "greeting", name |-> obs.result.name,
          rx_volume |-> calculate_total_rx_volume(obs.result)]
    ELSE [k |-> "ask_name"]

\* ReActAgent.handle_incoming_call
HandleIncomingCall(gateway) ==
    /\ pc = "idle"
    /\ Len(conversation_history) + 2 <= gateway.turns
    /\ \E caller_phone \in Phones, ext \in ApiAnswers :
        LET th == Thought("Need to identify the calling pharmacy", "find_pharmacy",
                          "find_pharmacy", PyDict([phone_number |-> caller_phone]))
            exec == execute_tool(th, ext, email_sent)
            up == update_state(th, exec.obs, conversation_history, current_pharmacy,
                               collected_info, topics_of_interest)
        IN /\ conversation_history' =
                    AppendTurn(up.history, Turn("assistant", Greeting(exec.obs)))
           /\ current_pharmacy' = up.current_pharmacy
           /\ collected_info' = up.collected_info
           /\ topics_of_interest' = up.topics_of_interest
           /\ email_sent' = exec.email_sent
           /\ returned' = [op |-> "handle_incoming_call", k |-> "returned",
                           value |-> Greeting(exec.obs)]
           /\ last_step' = Step("handle_incoming_call", TRUE, exec.obs, exec.invoked,
                                 exec.exception, ext)
           /\ invocations' = Counted("find_pharmacy", exec)
    /\ thought' = None
    /\ decision' = NoAnswer
    /\ UNCHANGED <<pc, observation, iteration_count>>

\* process_message up to its first call of _generate_thought (lines 320-325)
ProcessMessage(gateway) ==
    /\ pc = "idle"
    /\ Len(conversation_history) + 2 <= gateway.turns
    /\ \E message \in Messages :
        conversation_history' = AppendTurn(conversation_history, Turn("user", message))
    /\ thought' = None
    /\ observation' = None
    /\ iteration_count' = 0
    /\ decision' = NoAnswer
    /\ pc' = "think"
    /\ returned' = [op |-> "process_message", k |-> "running", value |-> None]
    /\ last_step' = NoStep
    /\ UNCHANGED <<current_pharmacy, collected_info, topics_of_interest, email_sent,
                   invocations>>

\* the acting part of one loop iteration (lines 331-344):
\* [raised, produced, obs, email_sent, invoked, exception]
Act(th, ext, sent) ==
    LET name == th.tool_name
        checked == validate_tool_inputs(name, OrEmptyDict(th.tool_args))
        made(obs) == [raised |-> FALSE, produced |-> TRUE, obs |-> obs,
                      email_sent |-> sent, invoked |-> FALSE, exception |-> NoException]
        none(raised) == [raised |-> raised, produced |-> FALSE, obs |-> None,
                         email_sent |-> sent, invoked |-> FALSE,
                         exception |-> NoException]
    IN IF name = NoTool THEN none(FALSE)
       ELSE IF LookupTool(name) # name
       THEN made(Observation(None, FALSE, ToolNotFound(name)))
       ELSE IF checked.raised THEN none(TRUE)
       ELSE IF ~checked.is_valid
       THEN made(Observation(None, FALSE, checked.error))
       ELSE LET exec == execute_tool(th, ext, sent)
            IN [raised |-> exec.raised, produced |-> TRUE, obs |-> exec.obs,
                email_sent |-> exec.email_sent, invoked |-> exec.invoked,
                exception |-> exec.exception]

\* the cap tested one iteration late
LoopConditionLate(th, count) == th.next_action # Sentinel /\ count <= MaxIterations

\* a loop that also goes on while a tool is named
LoopConditionOnTool(th, count) ==
    (th.next_action # Sentinel \/ th.tool_name # NoTool) /\ count < MaxIterations

\* the condition of the while loop (line 327)
LoopCondition(th, count) == th.next_action # Sentinel /\ count < MaxIterations

\* the except clause of process_message (lines 360-362); the locals of the call
\* are gone with its return
ReturnApology ==
    /\ pc' = "idle"
    /\ returned' = [op |-> "process_message", k |-> "except", value |-> ApologyError]
    /\ thought' = None
    /\ observation' = None
    /\ iteration_count' = 0

\* The Decision is requested (line 321 the first time, line 347 later), the loop
\* condition holds of it, and the body of the while loop (lines 328-346) runs.
LoopIteration(gateway) ==
    /\ pc = "think"
    /\ \E raw \in GatewayAnswers(gateway, conversation_history, email_sent) :
        LET th == generate_thought(raw, email_sent)
        IN /\ LoopCondition(th, iteration_count)
           /\ decision' = raw
           /\ \E ext \in ExtAnswers(th.tool_name) :
                LET act == Act(th, ext, email_sent)
                    obs == IF act.produced THEN act.obs ELSE observation
                    up == update_state(th, obs, conversation_history, current_pharmacy,
                                       collected_info, topics_of_interest)
                IN /\ last_step' = Step("process_message", act.produced, act.obs,
                                         act.invoked, act.exception, NoAnswer)
                   /\ email_sent' = act.email_sent
                   /\ invocations' = IF th.tool_name \in RegisteredTools
                                     THEN Counted(th.tool_name, act) ELSE invocations
                   /\ IF act.raised
                      THEN /\ ReturnApology
                           /\ UNCHANGED <<conversation_history, current_pharmacy,
                                          collected_info, topics_of_interest>>
                      ELSE /\ conversation_history' = up.history
                           /\ current_pharmacy' = up.current_pharmacy
                           /\ collected_info' = up.collected_info
                           /\ topics_of_interest' = up.topics_of_interest
                           /\ IF up.raised THEN ReturnApology
                              ELSE /\ thought' = th
                                   /\ observation' = obs
                                   /\ iteration_count' = iteration_count + 1
                                   /\ UNCHANGED <<pc, returned>>

\* The Decision is requested, the loop condition fails of it, and process_message
\* renders, appends and returns the final reply (lines 349-358).  The locals of the
\* call are gone with its return; `decision` and `thought` keep the Decision that
\* was rendered.
Finalize(gateway) ==
    /\ pc = "think"
    /\ \E raw \in GatewayAnswers(gateway, conversation_history, email_sent), llm \in ReplyAnswers :
        LET th == generate_thought(raw, email_sent)
            obs == IF observation = None THEN Observation(None, TRUE, None)
                   ELSE observation
            response == generate_natural_response(th, obs, llm)
        IN /\ ~LoopCondition(th, iteration_count)
           /\ decision' = raw
           /\ thought' = th
           /\ conversation_history' =
                    AppendTurn(conversation_history, Turn("assistant", response))
           /\ returned' = [op |-> "process_message", k |-> "returned",
                           value |-> response]
    /\ pc' = "idle"
    /\ observation' = None
    /\ iteration_count' = 0
    /\ last_step' = Step("finalize", FALSE, None, FALSE, NoException, NoAnswer)
    /\ UNCHANGED <<current_pharmacy, collected_info, topics_of_interest, email_sent,
                   invocations>>

Session(gateway) ==
    \/ HandleIncomingCall(gateway)
    \/ ProcessMessage(gateway)
    \/ LoopIteration(gateway)
    \/ Finalize(gateway)

Next == Session(AnyGateway)

Spec == Init /\ [][Next]_vars

NextEmail == Session(EmailGateway)

SpecEmail == Init /\ [][NextEmail]_vars

\* the bound on the transcript of a session that reaches the iteration cap with
\* a tool named in every iteration
MaxCapTurns == 8

\* a gateway that names a tool that succeeds, a tool that raises, and a tool
\* with arguments that are no mapping
CapGateway ==
    [tools |-> {Decision("use_tool", c) :
                    c \in {ToolCall("calculate_rx_volume", PyDict([pharmacy |-> HealthFirst])),
                           ToolCall("send_email", PyDict([email_data |-> [to |-> "x"]])),
                           ToolCall("send_email", Scalar)}},
     turns |-> MaxCapTurns]

\* process_message calls on an agent that took no call
NextLoop ==
    \/ ProcessMessage(CapGateway)
    \/ LoopIteration(CapGateway)
    \/ Finalize(CapGateway)

SpecLoop == Init /\ [][NextLoop]_vars

\* process_message runs to its return once it is called: a Decision request is
\* always answered, and the step the answer leads to is taken
FairSpec == SpecEmail /\ WF_vars(LoopIteration(EmailGateway) \/ Finalize(EmailGateway))

----------------------------------------------------------------------------
(* _execute_tool called directly, as the tests call it, on a Thought of any   *)
(* shape                                                                      *)

ArgKeys ==
    {"phone_number", "user_message", "conversation_context", "pharmacy_info",
     "user_query", "topics_of_interest", "email_data", "pharmacy", "cc"}

\* a well-typed value of each argument
ArgValue(key) ==
    CASE key = "phone_number" -> <<"5", "1">>
      [] key = "user_message" -> "msg"
      [] key = "conversation_context" -> "ctx"
      [] key = "pharmacy_info" -> HealthFirst
      [] key = "user_query" -> "q"
      [] key = "topics_of_interest" -> PyList(<<"automation">>)
      [] key = "email_data" -> Draft
      [] key = "pharmacy" -> HealthFirst
      [] OTHER -> "x"

\* the arguments that may also be given as None
Optional == {"pharmacy_info", "topics_of_interest", "pharmacy"}

RxItems ==
    {[drug |-> "Lisinopril", count |-> 10], [drug |-> "Atorvastatin", count |-> 20],
     [drug |-> "Metformin"]}

RxLists == UNION {[1..n -> RxItems] : n \in 0..MaxItems}

\* no record, a record without prescriptions, records with up to MaxItems items
Records ==
    {None, [name |-> "Test Pharmacy", phone |-> <<"5", "1">>]}
    \cup {[name |-> "Test Pharmacy", phone |-> <<"5", "1">>, prescriptions |-> items] :
            items \in RxLists}

Thoughts ==
    {Thought("unit", "use_tool", name,
             PyDict([k \in keys |-> IF none /\ k \in Optional THEN None ELSE ArgValue(k)])) :
        name \in RegisteredTools \cup {"lookup_customer"}, keys \in SUBSET ArgKeys,
        none \in BOOLEAN}
    \cup {Thought("unit", "use_tool", "calculate_rx_volume", PyDict([pharmacy |-> r])) :
            r \in Records}
    \cup {Thought("unit", "use_tool", name, args) :
            name \in RegisteredTools \cup {NoTool}, args \in {None, Scalar}}

InitUnit ==
    /\ conversation_history = <<>>
    /\ current_pharmacy = None
    /\ collected_info = NoInfo
    /\ topics_of_interest = <<>>
    /\ email_sent = FALSE
    /\ pc = "unit"
    /\ thought \in Thoughts
    /\ observation = None
    /\ iteration_count = 0
    /\ decision = NoAnswer
    /\ returned = NoReturn
    /\ last_step = NoStep
    /\ invocations = [n \in RegisteredTools |-> 0]

\* one call of _execute_tool(thought); `at` is the position it is made at and
\* `to` the position after it
ExecuteTool(at, to) ==
    /\ pc = at
    /\ \E ext \in ExtAnswers(thought.tool_name) :
        LET exec == execute_tool(thought, ext, email_sent)
        IN /\ pc' = IF exec.raised THEN "raised" ELSE to
           /\ last_step' = Step("_execute_tool", ~exec.raised, exec.obs, exec.invoked,
                                 exec.exception, ext)
           /\ email_sent' = exec.email_sent
           /\ invocations' = IF thought.tool_name \in RegisteredTools
                             THEN Counted(thought.tool_name, exec) ELSE invocations
           /\ observation' = IF at = "unit" THEN exec.obs ELSE observation
    /\ UNCHANGED <<conversation_history, current_pharmacy, collected_info,
                   topics_of_interest, thought, iteration_count, decision, returned>>

\* the first call; `observation` keeps what it returned
UnitExecuteTool == ExecuteTool("unit", "executed")

\* the same call made again; `last_step` has what it returned
UnitExecuteAgain == ExecuteTool("executed", "again")

NextUnit == UnitExecuteTool \/ UnitExecuteAgain

SpecUnit == InitUnit /\ [][NextUnit]_vars

----------------------------------------------------------------------------
(* The non-loop dispatcher: one classification per message, then a branch.  *)
(* Texts are sequences of characters.                                       *)

PyText(chars) == [t |-> "text", chars |-> chars]

\* what a caller may say: a name, prose with digits in no all-digit token, prose
\* around a number, a number written with a thousands separator before another
\* number, and two numbers
Utterances ==
    {<<"r", "x">>,
     <<"n", "o", " ", "2", "4", "h">>,
     <<"a", " ", "1", "0", " ", "r", "x">>,
     <<"1", ",", "0", "0", "0", " ", "o", "r", " ", "2">>,
     <<"2", " ", "1", "0">>}

\* a fixed order with location ahead of name
AcquisitionOrderLocationFirst == <<"location", "name", "volume">>

\* the fixed acquisition order of CollectedInfo
AcquisitionOrder == <<"name", "location", "volume">>

NoField == "<none>"

\* the field a provide_info message fills: the first of the order not yet captured
NextField(info) ==
    LET missing == {i \in DOMAIN AcquisitionOrder : AcquisitionOrder[i] \notin DOMAIN info}
    IN IF missing = {} THEN NoField
       ELSE AcquisitionOrder[CHOOSE i \in missing : \A j \in missing : i <= j]

IsSeparator(c) == c = ","

NotSeparator(c) == ~IsSeparator(c)

\* stripping the thousands separators
strip_separators(text) == SelectSeq(text, NotSeparator)

\* tokenizing on whitespace: the maximal runs of characters that are no blank
RECURSIVE split(_)
split(text) ==
    IF text = <<>> THEN <<>>
    ELSE IF Head(text) = " " THEN split(Tail(text))
    ELSE LET blanks == {i \in DOMAIN text : text[i] = " "}
             n == IF blanks = {} THEN Len(text) + 1
                  ELSE CHOOSE i \in blanks : \A j \in blanks : i <= j
         IN <<SubSeq(text, 1, n - 1)>> \o split(SubSeq(text, n, Len(text)))

\* a token that is entirely digits
isdigit(token) == token # <<>> /\ \A i \in DOMAIN token : IsDigit(token[i])

DigitValue(c) == CHOOSE n \in 0..9 : <<"0", "1", "2", "3", "4", "5", "6", "7", "8", "9">>[n + 1] = c

\* the number a token of digits denotes
RECURSIVE int(_)
int(token) ==
    IF token = <<>> THEN 0
    ELSE int(SubSeq(token, 1, Len(token) - 1)) * 10 + DigitValue(token[Len(token)])

\* numeric extraction for the prescription volume: the first token, after the
\* separators are stripped, that is entirely digits; None when there is none
extract_volume(message) ==
    LET tokens == split(strip_separators(message))
        hits == {i \in DOMAIN tokens : isdigit(tokens[i])}
    IN IF hits = {} THEN None
       ELSE PyInt(int(tokens[CHOOSE i \in hits : \A j \in hits : i <= j]))

\* what is stored of a message under a field
FieldValue(field, message) ==
    IF field = "volume" THEN extract_volume(message) ELSE PyText(message)

\* the tailored prompt for the next field, or the closing pitch after volume
FieldReply(field, value) ==
    CASE field = "name" -> [k |-> "ask_location", name |-> value]
      [] field = "location" -> [k |-> "ask_volume"]
      [] field = "volume" -> [k |-> "closing_pitch", volume |-> value]

\* what the classifier may answer the dispatcher
IntentAnswers ==
    {a \in ClassifierAnswers : a.k = "json" => a.value.t = "dict" /\ "info" \notin DOMAIN a.value.d}

Dispatched(intent, field, message) ==
    Step("dispatch", FALSE, None, FALSE, NoException,
         [intent |-> intent, field |-> field, message |-> message])

\* provide_info without a resolved record and with a field left to capture
Acquire(intent, message) ==
    LET field == NextField(collected_info)
        value == FieldValue(field, message)
    IN /\ collected_info' = DictSet(collected_info, field, value)
       /\ returned' = [op |-> "dispatch", k |-> "returned", value |-> FieldReply(field, value)]
       /\ last_step' = Dispatched(intent, field, message)

\* request_email: the generation and send pair, then a canned sentence
EmailPair(intent, message) ==
    \E llm \in TextAnswers :
        LET gen == generate_email(current_pharmacy, message, None, llm)
            sent == IF gen.raised THEN gen ELSE send_email(gen.value)
        IN /\ returned' = [op |-> "dispatch", k |-> "returned",
                           value |-> IF sent.raised \/ ~ReportsSuccess(sent.value)
                                     THEN [k |-> "email_failed"]
                                     ELSE [k |-> "email_confirmed"]]
           /\ last_step' = Dispatched(intent, NoField, <<>>)
           /\ UNCHANGED collected_info

\* every other case: free-form generation
FreeForm(intent, message) ==
    \E llm \in ReplyAnswers :
        /\ returned' = [op |-> "dispatch", k |-> "returned",
                        value |-> generate_natural_response(None, None, llm)]
        /\ last_step' = Dispatched(intent, NoField, <<>>)
        /\ UNCHANGED collected_info

\* the dispatcher's handling of one message (it calls the tools directly, not
\* through _execute_tool, whose entries `invocations` counts)
Dispatch ==
    /\ pc = "idle"
    /\ \E message \in Utterances, answer \in IntentAnswers :
        LET intent == classify_intent(message, "ctx", answer).d.intent
        IN CASE intent = "request_email" -> EmailPair(intent, message)
             [] intent = "provide_info" /\ current_pharmacy = None
                    /\ NextField(collected_info) # NoField -> Acquire(intent, message)
             [] OTHER -> FreeForm(intent, message)
    /\ UNCHANGED <<conversation_history, current_pharmacy, topics_of_interest, email_sent,
                   pc, thought, observation, iteration_count, decision, invocations>>

\* a session opened by at most one call
OneCall == [tools |-> {}, turns |-> 2]

NextDispatch == HandleIncomingCall(OneCall) \/ Dispatch

SpecDispatch == Init /\ [][NextDispatch]_vars

----------------------------------------------------------------------------
(* Properties *)

Last(seq) == seq[Len(seq)]

\* the step is the return of process_message
Returns == pc = "think" /\ pc' = "idle"

\* the answer of the gateway names this tool
Names(raw, name) ==
    /\ raw.k = "json"
    /\ raw.value.t = "dict"
    /\ "tool_name" \in DOMAIN raw.value.d
    /\ raw.value.d.tool_name = name

\* the answer of the gateway is no well-formed Decision
Malformed(raw) ==
    \/ raw.k \in {"error", "unparsable"}
    \/ /\ raw.k = "json"
       /\ \/ raw.value.t # "dict"
          \/ "reasoning" \notin DOMAIN raw.value.d
          \/ "next_action" \notin DOMAIN raw.value.d

\* the step is a run of the loop body on the Decision decision'
RunsBody == pc = "think" /\ last_step'.op = "process_message"

\* the sum of the counts of the items of a record that has items
RECURSIVE ExpectedVolume(_)
ExpectedVolume(record) ==
    IF record = None \/ "prescriptions" \notin DOMAIN record THEN 0
    ELSE IF record.prescriptions = <<>> THEN 0
    ELSE LET first == Head(record.prescriptions)
         IN (IF "count" \in DOMAIN first THEN first.count ELSE 0)
            + ExpectedVolume([record EXCEPT !.prescriptions = Tail(@)])

C2_AsStated ==
    returned.op = "process_message" /\ returned.k \in {"returned", "except"}
        => returned.value.t = "str" /\ returned.value.s # ""

\* C3: once email_sent is true, a Decision that names send_email is used as the
\* sentinel Decision without tool and with empty arguments, in this call of
\* process_message or a later one, and the send_email function is not entered again.
C3_SendEmailOverridden ==
    /\ [][email_sent /\ pc = "think" /\ Names(decision', "send_email")
            => /\ thought' # None
               /\ thought'.next_action = Sentinel
               /\ thought'.tool_name = NoTool
               /\ thought'.tool_args = EmptyDict]_vars
    /\ [][email_sent => invocations'["send_email"] = invocations["send_email"]]_vars

\* C3's case: the email went out in the first message, and in the second message
\* the gateway named send_email again
C3_Witness ==
    /\ email_sent
    /\ pc = "idle"
    /\ Len(conversation_history) = 5
    /\ conversation_history[3].role = "assistant"
    /\ conversation_history[4].role = "user"
    /\ Names(decision, "send_email")
    /\ "reasoning" \in DOMAIN decision.value.d
    /\ decision.value.d.next_action = "use_tool"
    /\ invocations["send_email"] = 1

\* C4: email_sent starts false and no step sets it back to false.
C4_EmailSentMonotone ==
    /\ ~email_sent
    /\ [][email_sent => email_sent']_vars

\* C4's case: the email has gone out and a later handle_incoming_call has run
\* find_pharmacy
C4_Witness ==
    /\ email_sent
    /\ last_step.op = "handle_incoming_call"
    /\ last_step.invoked

\* C5: _execute_tool on a registered tool and an argument mapping gives a failed
\* Observation with the missing-context error exactly when a required key is
\* absent; the error then names exactly the absent required keys, in the order of
\* the registry, and the tool's function is not entered.
C5_MissingContext ==
    pc = "executed" /\ thought.tool_name \in RegisteredTools =>
        LET required == required_context(thought.tool_name)
            given == DOMAIN OrEmptyDict(thought.tool_args).d
            absent == {i \in DOMAIN required : required[i] \notin given}
            error == observation.error
            reported == /\ ~observation.success
                        /\ error # None
                        /\ error.k = "missing"
        IN /\ reported <=> absent # {}
           /\ reported =>
                /\ observation.result = None
                /\ Len(error.keys) = Cardinality(absent)
                /\ \A n \in DOMAIN error.keys :
                    \E i \in absent :
                        /\ error.keys[n] = required[i]
                        /\ Cardinality({j \in absent : j < i}) = n - 1
                /\ ~last_step.invoked
                /\ \A name \in RegisteredTools : invocations[name] = 0

\* C5's case: generate_email asked for with pharmacy_info only
C5_Witness ==
    /\ pc = "executed"
    /\ thought.tool_name = "generate_email"
    /\ thought.tool_args # None
    /\ DOMAIN thought.tool_args.d = {"pharmacy_info"}
    /\ observation.error = MissingContext(<<"user_query", "topics_of_interest">>)

\* C6: a run of the loop body on a Decision naming an unregistered tool makes
\* the failed Observation "Tool <name> not found", enters no tool function,
\* raises nothing, and leaves process_message at the next Decision request.
C6_UnknownTool ==
    [][RunsBody /\ decision'.k = "json" /\ "tool_name" \in DOMAIN decision'.value.d
         /\ decision'.value.d.tool_name \notin RegisteredTools
        => /\ last_step'.produced
           /\ last_step'.obs =
                [result |-> None, success |-> FALSE,
                 error |-> [k |-> "not_found", tool |-> decision'.value.d.tool_name]]
           /\ observation' = last_step'.obs
           /\ ~last_step'.invoked
           /\ invocations' = invocations
           /\ pc' = "think"
           /\ returned' = returned]_vars

\* C6's case: the loop has just run on a Decision naming lookup_customer
C6_Witness ==
    /\ pc = "think"
    /\ Names(decision, "lookup_customer")
    /\ last_step.produced
    /\ ~last_step.obs.success

\* C7: when the function of a validated tool raises, the iteration makes the
\* failed Observation carrying the exception's description, nothing is raised out
\* of the iteration, and process_message is at the next Decision request.
C7_ToolException ==
    [][RunsBody /\ last_step'.exception # NoException
        => /\ last_step'.produced
           /\ last_step'.obs =
                [result |-> None, success |-> FALSE,
                 error |-> [k |-> "exception", desc |-> last_step'.exception]]
           /\ observation' = last_step'.obs
           /\ pc' = "think"
           /\ returned' = returned]_vars

\* C7's case: send_email has raised on a draft without subject and body
C7_Witness ==
    /\ pc = "think"
    /\ Names(decision, "send_email")
    /\ last_step.invoked
    /\ last_step.exception = "KeyError"

\* C8: on an answer of the gateway that is an error, does not parse, or lacks
\* reasoning or next_action, the Decision used carries the sentinel and no tool,
\* no tool function is entered, and process_message renders and returns the reply.
C8_FallbackDecision ==
    [][pc = "think" /\ Malformed(decision')
        => /\ thought'.next_action = Sentinel
           /\ thought'.tool_name = NoTool
           /\ invocations' = invocations
           /\ last_step'.op = "finalize"
           /\ pc' = "idle"
           /\ returned'.op = "process_message"
           /\ returned'.k = "returned"]_vars

\* C8's case: the reply has been rendered on an answer that lacked reasoning and
\* named send_email
C8_Witness ==
    /\ pc = "idle"
    /\ returned.k = "returned"
    /\ decision.k = "json"
    /\ "reasoning" \notin DOMAIN decision.value.d
    /\ Names(decision, "send_email")

\* C9: calculate_rx_volume gives the sum of the counts of the record's items, an
\* item without a count adding 0, and 0 for None, for a record without
\* prescriptions and for an empty list; the same call made again gives the same
\* result, and the agent's state is as before.
C9_RxVolume ==
    /\ thought.tool_name = "calculate_rx_volume" /\ thought.tool_args # None
       /\ thought.tool_args.t = "dict" /\ DOMAIN thought.tool_args.d = {"pharmacy"}
       /\ pc \in {"executed", "again"}
        => /\ observation = [result |-> [t |-> "int",
                                         n |-> ExpectedVolume(thought.tool_args.d.pharmacy)],
                             success |-> TRUE, error |-> None]
           /\ pc = "again" => last_step.obs = observation
           /\ current_pharmacy = None /\ collected_info = NoInfo
           /\ topics_of_interest = <<>> /\ ~email_sent

\* C9's case: the volume of a record whose second item has no count, asked twice
C9_Witness ==
    /\ pc = "again"
    /\ thought.tool_name = "calculate_rx_volume"
    /\ thought.tool_args # None /\ thought.tool_args.t = "dict"
    /\ DOMAIN thought.tool_args.d = {"pharmacy"}
    /\ thought.tool_args.d.pharmacy # None
    /\ "prescriptions" \in DOMAIN thought.tool_args.d.pharmacy
    /\ Len(thought.tool_args.d.pharmacy.prescriptions) = 2
    /\ "count" \notin DOMAIN thought.tool_args.d.pharmacy.prescriptions[2]
    /\ observation.result = PyInt(20)

\* C10: handle_incoming_call returns the greeting with the customer's name and
\* the sum of the item counts exactly when the lookup gave a record, which is
\* then current_pharmacy; otherwise (nothing found, or the transport failed) it
\* returns the request for the pharmacy's name, which has no field of a record,
\* and current_pharmacy is None.  The greeting is the last entry of the transcript.
C10_Greeting ==
    returned.op = "handle_incoming_call" =>
        LET record == last_step.obs.result
        IN /\ last_step.obs.success
           /\ IF record # None
              THEN /\ returned.value = [k |-> "greeting", name |-> record.name,
                                        rx_volume |-> ExpectedVolume(record)]
                   /\ current_pharmacy = record
              ELSE /\ returned.value = [k |-> "ask_name"]
                   /\ current_pharmacy = None
           /\ last_step.ext.resp.k = "request_error" => record = None
           /\ Last(conversation_history) = Turn("assistant", returned.value)

\* C10's case: the caller is HealthFirst, greeted by name with the volume 80
C10_Witness ==
    /\ returned.op = "handle_incoming_call"
    /\ returned.value = [k |-> "greeting", name |-> "HealthFirst Pharmacy",
                         rx_volume |-> 80]
    /\ current_pharmacy = HealthFirst

\* the synthetic transcript entry of an iteration
Entry(reasoning, action, result) ==
    [role |-> "assistant",
     content |-> [k |-> "thought", reasoning |-> reasoning, action |-> action,
                  result |-> result]]

\* C11: folding a successful find_pharmacy Observation makes current_pharmacy
\* the Observation's result, whatever record was there before, and appends the
\* assistant entry that carries the Decision's reasoning; so in a loop iteration,
\* so in handle_incoming_call (whose greeting follows the entry).
C11_LookupReplacesRecord ==
    /\ [][RunsBody /\ Names(decision', "find_pharmacy") /\ last_step'.produced
            /\ last_step'.obs.success
            => /\ current_pharmacy' = last_step'.obs.result
               /\ conversation_history' =
                    Append(conversation_history,
                           Entry(decision'.value.d.reasoning, decision'.value.d.next_action,
                                 last_step'.obs.result))]_vars
    /\ [][pc = "idle" /\ last_step'.op = "handle_incoming_call" /\ last_step'.obs.success
            => /\ current_pharmacy' = last_step'.obs.result
               /\ Len(conversation_history') = Len(conversation_history) + 2
               /\ conversation_history'[Len(conversation_history) + 1] =
                    Entry("Need to identify the calling pharmacy", "find_pharmacy",
                          last_step'.obs.result)]_vars

\* C11's case: HealthFirst was looked up, then Corner Drug, which has no
\* prescriptions: none of HealthFirst's are left
C11_Witness ==
    /\ current_pharmacy = CornerDrug
    /\ \E i \in DOMAIN conversation_history :
        /\ "k" \in DOMAIN conversation_history[i].content
        /\ conversation_history[i].content.k = "thought"
        /\ conversation_history[i].content.result = HealthFirst

\* C12: a loop iteration whose Observation failed leaves current_pharmacy,
\* collected_info, topics_of_interest and email_sent as they were and adds the
\* synthetic entry, which carries the error, to the transcript.
C12_FailedObservationFrame ==
    [][RunsBody /\ last_step'.produced /\ ~last_step'.obs.success
        => /\ current_pharmacy' = current_pharmacy
           /\ collected_info' = collected_info
           /\ topics_of_interest' = topics_of_interest
           /\ email_sent' = email_sent
           /\ conversation_history' =
                Append(conversation_history,
                       Entry(decision'.value.d.reasoning, decision'.value.d.next_action,
                             last_step'.obs.error))]_vars

\* C12's case: with HealthFirst resolved, a find_pharmacy without phone_number
\* has failed
C12_Witness ==
    /\ pc = "think"
    /\ current_pharmacy = HealthFirst
    /\ Names(decision, "find_pharmacy")
    /\ last_step.produced
    /\ ~last_step.obs.success

\* C13: every step leaves the transcript it found as a prefix of the transcript
\* it makes.
C13_AppendOnly ==
    [][/\ Len(conversation_history') >= Len(conversation_history)
       /\ SubSeq(conversation_history', 1, Len(conversation_history))
            = conversation_history]_vars

\* C13's case: a call and then a message have both added to the transcript
C13_Witness ==
    /\ pc = "idle"
    /\ Len(conversation_history) = 4
    /\ conversation_history[2].content \in {[k |-> "ask_name"]}
    /\ conversation_history[3].role = "user"
    /\ conversation_history[4].role = "assistant"

\* C14 as stated: when process_message has returned a reply, on whatever path,
\* the reply is the last entry of the transcript, an assistant turn, and a user
\* turn precedes it.
C14_AsStated ==
    returned.op = "process_message" /\ returned.k \in {"returned", "except"}
        => /\ Last(conversation_history) = Turn("assistant", returned.value)
           /\ \E i \in 1..(Len(conversation_history) - 1) :
                conversation_history[i].role = "user"

C16_AsStated ==
    pc \in {"executed", "again"} /\ thought.tool_name = "generate_email" /\ last_step.invoked
        => /\ last_step.exception = NoException
           /\ last_step.obs.success
           /\ {"to", "subject", "body", "topics"} \subseteq DOMAIN last_step.obs.result

\* the Thought made of the gateway's answer in the step
ThoughtOf(raw) == generate_thought(raw, email_sent)

\* C17 as stated: the loop body never runs on a Decision that names no tool (such
\* a Decision ends the loop, and no other Decision is requested after it).
C17_AsStated ==
    [][RunsBody => ThoughtOf(decision').tool_name # NoTool]_vars

\* which of the texts of the model contains which phrase
Containment ==
    {<<"Here is how our services help.", "services">>}

Mentions(text, phrase) == text.t = "str" /\ <<text.s, phrase>> \in Containment

\* C18 as stated: with a record resolved, a reply returned by process_message
\* that mentions services contains the record's name.
C18_AsStated ==
    (/\ returned.op = "process_message"
     /\ returned.k \in {"returned", "except"}
     /\ current_pharmacy # None
     /\ Mentions(returned.value, "services"))
        => Mentions(returned.value, current_pharmacy.name)

\* the entry _update_state makes of the Thought and Observation of the step
EntryOf(th, obs) ==
    Entry(th.reasoning, th.next_action, IF obs.success THEN obs.result ELSE obs.error)

C20_EmailSentOnlyBySend ==
    /\ [][~email_sent /\ email_sent'
            => /\ Names(decision', "send_email")
               /\ last_step'.invoked
               /\ last_step'.obs.success
               /\ ReportsSuccess(last_step'.obs.result)
               /\ invocations'["send_email"] = invocations["send_email"] + 1]_vars
    /\ [](email_sent => invocations["send_email"] >= 1)

\* C20's case: the flag is set and the step before was the send_email call that
\* reported success, after calls of other tools left it unset
C20_Witness ==
    /\ email_sent
    /\ pc = "think"
    /\ Names(decision, "send_email")
    /\ last_step.invoked
    /\ ReportsSuccess(last_step.obs.result)
    /\ invocations["send_email"] = 1
    /\ invocations["generate_email"] >= 1

\* the step is a run of the loop body that made a successful Observation for
\* classify_intent
Classified ==
    /\ RunsBody
    /\ Names(decision', "classify_intent")
    /\ last_step'.produced
    /\ last_step'.obs.success

\* the intent of a classification result, "" when it has none
IntentOf(result) ==
    IF result.t = "dict" /\ "intent" \in DOMAIN result.d THEN result.d.intent ELSE ""

\* the info payload of a classification result that has one which is a mapping
HasPayload(result) ==
    result.t = "dict" /\ "info" \in DOMAIN result.d /\ result.d.info.t = "dict"

\* C21: a loop iteration with a successful classify_intent Observation changes
\* of the agent's state only the transcript, by its entry, and collected_info:
\* with intent provide_info the keys of the info payload are set to the payload's
\* values and the other keys keep theirs; with intent request_email
\* requested_email is set to true and the other keys keep theirs; with any other
\* intent, and with a result or payload that cannot be read, it is unchanged.
C21_ClassificationFolded ==
    [][Classified
        => LET result == last_step'.obs.result
           IN /\ current_pharmacy' = current_pharmacy
              /\ topics_of_interest' = topics_of_interest
              /\ email_sent' = email_sent
              /\ conversation_history' =
                    Append(conversation_history,
                           Entry(decision'.value.d.reasoning,
                                 decision'.value.d.next_action, result))
              /\ CASE IntentOf(result) = "provide_info" /\ HasPayload(result) ->
                        /\ DOMAIN collected_info' =
                                DOMAIN collected_info \cup DOMAIN result.d.info.d
                        /\ \A k \in DOMAIN result.d.info.d :
                                collected_info'[k] = result.d.info.d[k]
                        /\ \A k \in DOMAIN collected_info \ DOMAIN result.d.info.d :
                                collected_info'[k] = collected_info[k]
                   [] IntentOf(result) = "request_email" ->
                        /\ DOMAIN collected_info' =
                                DOMAIN collected_info \cup {"requested_email"}
                        /\ collected_info'["requested_email"] = "True"
                        /\ \A k \in DOMAIN collected_info \ {"requested_email"} :
                                collected_info'[k] = collected_info[k]
                   [] OTHER -> collected_info' = collected_info]_vars

\* C21's case: a payload with a name has been merged into a mapping that held
\* requested_email, which is kept
C21_Witness ==
    /\ pc = "think"
    /\ Names(decision, "classify_intent")
    /\ last_step.produced
    /\ last_step.obs.success
    /\ IntentOf(last_step.obs.result) = "provide_info"
    /\ DOMAIN collected_info = {"requested_email", "name"}
    /\ collected_info["name"] = "City Pharmacy"

\* C22: no step removes a key of collected_info.
C22_KeysNeverShrink ==
    [][DOMAIN collected_info \subseteq DOMAIN collected_info']_vars

\* C22's case: a process_message call that set requested_email over a mapping
\* holding a name and a location has returned, and both are still there
C22_Witness ==
    /\ pc = "idle"
    /\ returned.op = "process_message"
    /\ DOMAIN collected_info = {"name", "location", "requested_email"}

\* the step folded a successful find_pharmacy Observation, in the loop or in
\* handle_incoming_call
LookedUp ==
    \/ /\ RunsBody
       /\ Names(decision', "find_pharmacy")
       /\ last_step'.produced
       /\ last_step'.obs.success
    \/ /\ pc = "idle"
       /\ last_step'.op = "handle_incoming_call"
       /\ last_step'.obs.success

\* C23 as stated: a resolved current_pharmacy changes only to another record, one
\* that a lookup found; a lookup that found nothing or failed in transport leaves
\* it as it was.
C23_AsStated ==
    [][current_pharmacy # None /\ current_pharmacy' # current_pharmacy
        => /\ current_pharmacy' # None
           /\ LookedUp
           /\ current_pharmacy' = last_step'.obs.result]_vars

\* C24 as stated: while a record is resolved, no step changes collected_info.
C24_AsStated ==
    [][current_pharmacy # None /\ current_pharmacy' # None
        => collected_info' = collected_info]_vars

\* C25: a loop iteration whose Decision names calculate_rx_volume, whatever
\* becomes of the call, leaves current_pharmacy, collected_info,
\* topics_of_interest and email_sent as they were.
C25_VolumeMutatesNothing ==
    [][RunsBody /\ Names(decision', "calculate_rx_volume")
        => /\ current_pharmacy' = current_pharmacy
           /\ collected_info' = collected_info
           /\ topics_of_interest' = topics_of_interest
           /\ email_sent' = email_sent]_vars

\* C25's case: the volume of HealthFirst's record has been computed while Corner
\* Drug is the resolved record
C25_Witness ==
    /\ pc = "think"
    /\ Names(decision, "calculate_rx_volume")
    /\ last_step.invoked
    /\ last_step.obs.success
    /\ last_step.obs.result = PyInt(80)
    /\ current_pharmacy = CornerDrug
    /\ ~email_sent

\* the entries that iterations have made since the last user turn
CallEntries ==
    LET users == {i \in DOMAIN conversation_history :
                    conversation_history[i].role = "user"}
        from == IF users = {} THEN 0 ELSE CHOOSE i \in users : \A j \in users : j <= i
    IN {i \in DOMAIN conversation_history :
            /\ i > from
            /\ "k" \in DOMAIN conversation_history[i].content
            /\ conversation_history[i].content.k = "thought"}

\* C26: a run of the loop body enters at most one tool function, the one its
\* Decision names, and enters it once, whether the call succeeds or fails; a run
\* that entered it leaves exactly one entry in the transcript; no other step of
\* process_message enters a tool; and the runs of one call are at most 5, so one
\* call enters tools at most 5 times.
C26_NoRetry ==
    /\ [][RunsBody
            => /\ iteration_count < MaxIterations
               /\ \A n \in RegisteredTools :
                    invocations'[n] =
                        invocations[n]
                            + (IF last_step'.invoked /\ Names(decision', n) THEN 1 ELSE 0)
               /\ last_step'.invoked
                    => Len(conversation_history') = Len(conversation_history) + 1]_vars
    /\ [][~RunsBody => invocations' = invocations]_vars
    /\ [](Cardinality(CallEntries) <= MaxIterations)

\* C26's case: the first call ran the body five times, entering a tool each
\* time, a call that raised among them
C26_Witness ==
    /\ pc = "think"
    /\ iteration_count = MaxIterations
    /\ Len(conversation_history) = MaxIterations + 1
    /\ invocations["send_email"] >= 1
    /\ invocations["calculate_rx_volume"] + invocations["send_email"] = MaxIterations
    /\ ~last_step.obs.success

\* C27 as stated: the Decision request about to be made in a process_message call
\* is supplied no Observation when it is the first of the call, and otherwise
\* what the iteration just completed observed.
C27_AsStated ==
    pc = "think"
        => IF iteration_count = 0 THEN observation = None
           ELSE observation = last_step.obs

\* the gateway's answer is a well-formed Decision whose next_action is the
\* sentinel and which names a tool
SentinelWithTool(raw) ==
    /\ ~Malformed(raw)
    /\ raw.value.d.next_action = Sentinel
    /\ "tool_name" \in DOMAIN raw.value.d
    /\ raw.value.d.tool_name \in RegisteredTools

\* C28: when the gateway answers a Decision request with the sentinel and a
\* registered tool, the step is the return of process_message: no tool function
\* is entered, current_pharmacy, collected_info, topics_of_interest and
\* email_sent stay as they were, and the transcript gains the final reply and
\* nothing else.
C28_SentinelNeverActs ==
    [][pc = "think" /\ SentinelWithTool(decision')
        => /\ pc' = "idle"
           /\ invocations' = invocations
           /\ current_pharmacy' = current_pharmacy
           /\ collected_info' = collected_info
           /\ topics_of_interest' = topics_of_interest
           /\ email_sent' = email_sent
           /\ returned'.k = "returned"
           /\ conversation_history' =
                Append(conversation_history,
                       [role |-> "assistant", content |-> returned'.value])]_vars

\* C28's case: process_message has returned on a Decision with the sentinel that
\* names send_email with a draft, and no email has gone out
C28_Witness ==
    /\ pc = "idle"
    /\ returned.op = "process_message"
    /\ SentinelWithTool(decision)
    /\ decision.value.d.tool_args = PyDict([email_data |-> Draft])
    /\ ~email_sent
    /\ invocations["send_email"] = 0

====
